---- MODULE Spec2Model ----
(***************************************************************************)
(* Model of mkpdfs.py: an Inkscape SVG document with layers is turned into *)
(* a sequence of PDF page_files.  The script is one sequential pass; pc is its  *)
(* position.  Layers are named by their position in the document (1..n),   *)
(* a label is the sequence of its characters, and a text is a sequence of  *)
(* tokens in which the marker ${slide} is one token.                       *)
(***************************************************************************)
EXTENDS Integers, Sequences, FiniteSets, TLC

\* Largest number of layer groups in a document.
MaxLayers == 4

\* Largest number of layer groups in a document when the tools may fail.
MaxToolLayers == 2

VARIABLES
  labels,              \* per document layer: is there an inkscape:label, and its characters
  style,               \* per document layer: the value of its style attribute
  texts,               \* per tspan of the document: its text (or None)
  coalesce_animations, \* the configuration flag of line 42
  layers,              \* the working list of layers (document positions)
  subst_elements,      \* indices into texts of the tspans holding ${slide}
  subst_strings,       \* the texts captured for them
  last_visible_layer,  \* None (0) or a document position
  slide_num,
  page_count,
  base_layers,
  visible_layers,
  i,                   \* number of layers of the working list already enumerated
  pc,                  \* position of the script
  rendered,            \* one record per call of inkscape, in order
  merged,              \* the page files handed to pdftk, in argument order
  page_files,               \* the page files slide-*.pdf in the directory (their numbers)
  printed,             \* the messages printed, in order
  inkscape_fails,      \* the page numbers for which inkscape returns non-zero
  pdftk_fails          \* whether pdftk returns non-zero on existing page_files

vars == << labels, style, texts, coalesce_animations, layers, subst_elements,
           subst_strings, last_visible_layer, slide_num, page_count,
           base_layers, visible_layers, i, pc, rendered, merged, page_files,
           printed, inkscape_fails, pdftk_fails >>

None == 0

Range(s) == { s[k] : k \in 1..Len(s) }

\* ---------------------------------------------------------------- labels
\* The labels a layer group can carry: empty, or one starting with each sigil,
\* or an ordinary name.
LabelSet == { <<>>, <<".">>, <<"_">>, <<"+">>, <<"a">> }

LayerAttribs ==
  { [haslabel |-> FALSE, label |-> <<>>] } \cup
  { [haslabel |-> TRUE, label |-> s] : s \in LabelSet }

\* l.attrib['{...}label'][0] raises KeyError without the attribute and
\* IndexError on an empty label.
LabelRaises(a) == ~a.haslabel \/ Len(a.label) = 0

FirstChar(a) == a.label[1]

IsHiddenLabelMut(a) == FirstChar(a) = "_"
\* label[0] != '.' negated (line 67)
IsHiddenLabel(a) == FirstChar(a) = "."

\* label[0] == '_' (lines 75, 88)
IsBaseLabel(a) == FirstChar(a) = "_"

\* label[0] == '+' (line 92)
IsAdditiveLabel(a) == FirstChar(a) = "+"

\* ---------------------------------------------------------------- styles
StyleHidden == "display:none"
StyleShown == "display:inline"

\* What a renderer shows: every layer whose style is not display:none.
ShownLayers(st) == { d \in 1..Len(st) : st[d] # StyleHidden }

\* ----------------------------------------------------------------- texts
Marker == "${slide}"

Digit(n) == CASE n = 0 -> "0" [] n = 1 -> "1" [] n = 2 -> "2" [] n = 3 -> "3"
              [] n = 4 -> "4" [] n = 5 -> "5" [] n = 6 -> "6" [] n = 7 -> "7"
              [] n = 8 -> "8" [] n = 9 -> "9"

RECURSIVE Str(_)
\* str(slide_num): the decimal digits of a natural number
Str(n) == IF n < 10 THEN << Digit(n) >> ELSE Str(n \div 10) \o << Digit(n % 10) >>

RECURSIVE Replace(_, _)
\* s.replace('${slide}', r) on a token sequence
Replace(s, r) ==
  IF s = <<>> THEN <<>>
  ELSE (IF Head(s) = Marker THEN r ELSE << Head(s) >>) \o Replace(Tail(s), r)

\* t.text != None and t.text.find('${slide}') != -1
HasMarker(t) == ~t.isnone /\ \E k \in 1..Len(t.text) : t.text[k] = Marker

TextOf(s) == [isnone |-> FALSE, text |-> s]
NoText == [isnone |-> TRUE, text |-> <<>>]

\* The tspans of the documents explored: a tspan without text, one with the
\* marker twice and a plain one.
TextDocs ==
  { << NoText, TextOf(<<"Slide", Marker, "of", Marker>>), TextOf(<<"plain">>) >> }

RECURSIVE SelectIdx(_, _)
\* the indices k <= n of texts that hold the marker, in document order
SelectIdx(ts, n) ==
  IF n = 0 THEN <<>>
  ELSE IF HasMarker(ts[n]) THEN Append(SelectIdx(ts, n - 1), n)
       ELSE SelectIdx(ts, n - 1)

\* --------------------------------------------------------- list helpers
FilterHiddenMut(ls, lab) == ls
RECURSIVE FilterHidden(_, _)
\* [l for l in layers if label(l)[0] != '.']
FilterHidden(ls, lab) ==
  IF ls = <<>> THEN <<>>
  ELSE (IF IsHiddenLabel(lab[Head(ls)]) THEN <<>> ELSE << Head(ls) >>)
         \o FilterHidden(Tail(ls), lab)

RECURSIVE LastVisibleMut(_, _)
LastVisibleMut(ls, lab) ==
  IF ls = <<>> THEN None
  ELSE IF ~IsBaseLabel(lab[Head(ls)]) THEN Head(ls)
       ELSE LastVisibleMut(Tail(ls), lab)

RECURSIVE LastVisible(_, _)
\* the loop of lines 71-76: the last layer of the list whose label does not
\* start with '_'
LastVisible(ls, lab) ==
  IF ls = <<>> THEN None
  ELSE LET rest == LastVisible(Tail(ls), lab) IN
       IF rest # None THEN rest
       ELSE IF ~IsBaseLabel(lab[Head(ls)]) THEN Head(ls) ELSE None

AddVisibleMut(vis, l) == << l >>
\* visible_layers.append(l) (line 94)
AddVisible(vis, l) == Append(vis, l)

ResetVisibleMut(base, l) == << l >>
\* visible_layers = base_layers + [l] (line 97)
ResetVisible(base, l) == base \o << l >>

DeferSigilMut(a) == FirstChar(a) = "."
DeferSigilNotBase(a) == FirstChar(a) # "_"
\* next_label[0] == '+' or next_label[0] == '.' (line 102)
DeferSigil(a) == FirstChar(a) = "+" \/ FirstChar(a) = "."

NextSlideNumMut(n) == n
\* slide_num += 1 (line 98)
NextSlideNum(n) == n + 1

\* the page number used in the file name of a page (line 118)
PdfIndexMut(pages, slide) == slide
PdfIndex(pages, slide) == pages

\* ------------------------------------------------------------------ Init
\* The script at line 46 on a document of at most maxn layer groups; line 44
\* has removed the page files of earlier runs.
InitDocument(maxn) ==
  /\ \E n \in 0..maxn :
       /\ labels \in [1..n -> LayerAttribs]
       /\ style \in [1..n -> {StyleHidden, StyleShown}]
       /\ layers = [k \in 1..n |-> k]
  /\ texts \in TextDocs
  /\ coalesce_animations \in BOOLEAN
  /\ subst_elements = <<>>
  /\ subst_strings = <<>>
  /\ last_visible_layer = None
  /\ slide_num = 0
  /\ page_count = 0
  /\ base_layers = <<>>
  /\ visible_layers = <<>>
  /\ i = 0
  /\ pc = "load"
  /\ rendered = <<>>
  /\ merged = <<>>
  /\ page_files = {}
  /\ printed = <<>>

\* Documents of up to MaxLayers layers; inkscape and pdftk work.
Init ==
  /\ InitDocument(MaxLayers)
  /\ inkscape_fails = {}
  /\ pdftk_fails = FALSE

\* Documents of up to MaxToolLayers layers; inkscape may fail on any page and
\* pdftk may fail.
InitTools ==
  /\ InitDocument(MaxToolLayers)
  /\ inkscape_fails \in SUBSET (0..(MaxToolLayers - 1))
  /\ pdftk_fails \in BOOLEAN

\* --------------------------------------------------------------- actions
\* lines 51-59: remember the tspans that hold the marker and their texts
CaptureTexts ==
  /\ pc = "load"
  /\ subst_elements' = SelectIdx(texts, Len(texts))
  /\ subst_strings' = [k \in 1..Len(SelectIdx(texts, Len(texts))) |->
                         texts[SelectIdx(texts, Len(texts))[k]].text]
  /\ pc' = "hide"
  /\ UNCHANGED << labels, style, texts, coalesce_animations, layers,
                  last_visible_layer, slide_num, page_count, base_layers,
                  visible_layers, i, rendered, merged,
                  printed, page_files, inkscape_fails, pdftk_fails >>

HideAllMut ==
  /\ pc = "hide"
  /\ pc' = "filter"
  /\ UNCHANGED << labels, style, texts, coalesce_animations, layers,
                  subst_elements, subst_strings, last_visible_layer, slide_num,
                  page_count, base_layers, visible_layers, i, rendered, merged,
                  printed, page_files, inkscape_fails, pdftk_fails >>

\* lines 63-64: every layer of the document gets style display:none
HideAll ==
  /\ pc = "hide"
  /\ style' = [d \in 1..Len(style) |-> StyleHidden]
  /\ pc' = "filter"
  /\ UNCHANGED << labels, texts, coalesce_animations, layers, subst_elements,
                  subst_strings, last_visible_layer, slide_num, page_count,
                  base_layers, visible_layers, i, rendered, merged,
                  printed, page_files, inkscape_fails, pdftk_fails >>

RECURSIVE DropUnlabelled(_, _)
DropUnlabelled(ls, lab) ==
  IF ls = <<>> THEN <<>>
  ELSE (IF LabelRaises(lab[Head(ls)]) THEN <<>> ELSE << Head(ls) >>)
         \o DropUnlabelled(Tail(ls), lab)

FilterLayersMut ==
  /\ pc = "filter"
  /\ layers' = FilterHidden(DropUnlabelled(layers, labels), labels)
  /\ pc' = "last"
  /\ UNCHANGED << labels, style, texts, coalesce_animations, subst_elements,
                  subst_strings, last_visible_layer, slide_num, page_count,
                  base_layers, visible_layers, i, rendered, merged,
                  printed, page_files, inkscape_fails, pdftk_fails >>

\* line 67: drop the layers whose label starts with '.'; reading label[0] of
\* a layer without a label, or with an empty one, ends the script
FilterLayers ==
  /\ pc = "filter"
  /\ IF \E k \in 1..Len(layers) : LabelRaises(labels[layers[k]])
     THEN /\ pc' = "aborted"
          /\ UNCHANGED layers
     ELSE /\ layers' = FilterHidden(layers, labels)
          /\ pc' = "last"
  /\ UNCHANGED << labels, style, texts, coalesce_animations, subst_elements,
                  subst_strings, last_visible_layer, slide_num, page_count,
                  base_layers, visible_layers, i, rendered, merged,
                  printed, page_files, inkscape_fails, pdftk_fails >>

\* lines 71-76: hide the layers of the list and find the last non-base one
FindLastVisible ==
  /\ pc = "last"
  /\ style' = [d \in 1..Len(style) |->
                 IF d \in Range(layers) THEN StyleHidden ELSE style[d]]
  /\ last_visible_layer' = LastVisible(layers, labels)
  /\ pc' = "loop"
  /\ UNCHANGED << labels, texts, coalesce_animations, layers, subst_elements,
                  subst_strings, slide_num, page_count, base_layers,
                  visible_layers, i, rendered, merged,
                  printed, page_files, inkscape_fails, pdftk_fails >>

\* The layer the loop of line 86 is at, and its label.
CurLayer == layers[i + 1]
CurLabel == labels[CurLayer]

LookaheadOutcomeMut(l) ==
  IF ~coalesce_animations THEN "emit"
  ELSE IF i + 2 > Len(layers) THEN "raise"
  ELSE IF DeferSigil(labels[layers[i + 2]]) THEN "defer"
  ELSE "emit"

\* lines 100-105, after the layer l has been classified: with flattening on,
\* a layer other than last_visible_layer is not rendered ("defer") when the
\* label of layers[i+1] starts with '+' or '.'; layers[i+1] raises IndexError
\* past the end of the list
LookaheadOutcome(l) ==
  IF ~(coalesce_animations /\ l # last_visible_layer) THEN "emit"
  ELSE IF i + 2 > Len(layers) THEN "raise"
  ELSE IF DeferSigil(labels[layers[i + 2]]) THEN "defer"
  ELSE "emit"

Lookahead(l) ==
  CASE LookaheadOutcome(l) = "raise" ->
         pc' = "aborted" /\ UNCHANGED << i, printed >>
    [] LookaheadOutcome(l) = "defer" ->
         pc' = "loop" /\ i' = i + 1 /\ printed' = Append(printed, "Flattening layer")
    [] LookaheadOutcome(l) = "emit" ->
         pc' = "show" /\ UNCHANGED << i, printed >>

\* lines 88-91: a base layer joins base_layers and makes no page
BaseLayer ==
  /\ pc = "loop"
  /\ i < Len(layers)
  /\ IsBaseLabel(CurLabel)
  /\ base_layers' = Append(base_layers, CurLayer)
  /\ i' = i + 1
  /\ UNCHANGED << labels, style, texts, coalesce_animations, layers,
                  subst_elements, subst_strings, last_visible_layer, slide_num,
                  page_count, visible_layers, pc, rendered, merged,
                  printed, page_files, inkscape_fails, pdftk_fails >>

AdditiveLayerMut ==
  /\ pc = "loop"
  /\ i < Len(layers)
  /\ ~IsBaseLabel(CurLabel)
  /\ IsAdditiveLabel(CurLabel)
  /\ visible_layers' = AddVisible(visible_layers, CurLayer)
  /\ slide_num' = NextSlideNum(slide_num)
  /\ Lookahead(CurLayer)
  /\ UNCHANGED << labels, style, texts, coalesce_animations, layers,
                  subst_elements, subst_strings, last_visible_layer,
                  page_count, base_layers, rendered, merged,
                  page_files, inkscape_fails, pdftk_fails >>

\* lines 92-94 and 100-105: an additive layer joins visible_layers
AdditiveLayer ==
  /\ pc = "loop"
  /\ i < Len(layers)
  /\ ~IsBaseLabel(CurLabel)
  /\ IsAdditiveLabel(CurLabel)
  /\ visible_layers' = AddVisible(visible_layers, CurLayer)
  /\ Lookahead(CurLayer)
  /\ UNCHANGED << labels, style, texts, coalesce_animations, layers,
                  subst_elements, subst_strings, last_visible_layer, slide_num,
                  page_count, base_layers, rendered, merged,
                  page_files, inkscape_fails, pdftk_fails >>

NormalLayerMut ==
  /\ pc = "loop"
  /\ i < Len(layers)
  /\ ~IsBaseLabel(CurLabel)
  /\ ~IsAdditiveLabel(CurLabel)
  /\ visible_layers' = AddVisible(visible_layers, CurLayer)
  /\ slide_num' = NextSlideNum(slide_num)
  /\ Lookahead(CurLayer)
  /\ UNCHANGED << labels, style, texts, coalesce_animations, layers,
                  subst_elements, subst_strings, last_visible_layer,
                  page_count, base_layers, rendered, merged,
                  page_files, inkscape_fails, pdftk_fails >>

\* lines 95-98 and 100-105: any other layer starts a new slide
NormalLayer ==
  /\ pc = "loop"
  /\ i < Len(layers)
  /\ ~IsBaseLabel(CurLabel)
  /\ ~IsAdditiveLabel(CurLabel)
  /\ visible_layers' = ResetVisible(base_layers, CurLayer)
  /\ slide_num' = NextSlideNum(slide_num)
  /\ Lookahead(CurLayer)
  /\ UNCHANGED << labels, style, texts, coalesce_animations, layers,
                  subst_elements, subst_strings, last_visible_layer,
                  page_count, base_layers, rendered, merged,
                  page_files, inkscape_fails, pdftk_fails >>

TemplateMut(s) == texts[subst_elements[s]].text
\* subst_strings[s], the text that line 112 substitutes into
Template(s) == subst_strings[s]

\* lines 107-112: show the visible layers and fill in the slide number
Show ==
  /\ pc = "show"
  /\ style' = [d \in 1..Len(style) |->
                 IF d \in Range(visible_layers) THEN StyleShown ELSE style[d]]
  /\ texts' = [k \in 1..Len(texts) |->
                 IF \E s \in 1..Len(subst_elements) : subst_elements[s] = k
                 THEN LET s == CHOOSE s \in 1..Len(subst_elements) :
                                 subst_elements[s] = k
                      IN TextOf(Replace(Template(s), Str(slide_num)))
                 ELSE texts[k]]
  /\ pc' = "render"
  /\ UNCHANGED << labels, coalesce_animations, layers, subst_elements,
                  subst_strings, last_visible_layer, slide_num, page_count,
                  base_layers, visible_layers, i, rendered, merged,
                  printed, page_files, inkscape_fails, pdftk_fails >>

\* What os.system returns for the inkscape call that is to write page n; a
\* failed call leaves no page file.
InkscapeStatus(n) == IF n \in inkscape_fails THEN 1 ELSE 0

\* lines 114-122: write the document and have inkscape render it to
\* slide-<page_count>.pdf; the value os.system returns is dropped.  The record
\* keeps what the written document shows and what inkscape returned.
Render ==
  /\ pc = "render"
  /\ rendered' = Append(rendered,
       [ layer |-> CurLayer,
         slide_number |-> slide_num,
         visible_layer_set |-> Range(visible_layers),
         output_index |-> PdfIndex(page_count, slide_num),
         shown |-> ShownLayers(style),
         texts |-> texts,
         status |-> InkscapeStatus(PdfIndex(page_count, slide_num)) ])
  /\ page_files' = IF InkscapeStatus(PdfIndex(page_count, slide_num)) = 0
              THEN page_files \cup { PdfIndex(page_count, slide_num) }
              ELSE page_files
  /\ printed' = Append(printed, "Exporting")
  /\ page_count' = page_count + 1
  /\ pc' = "restore"
  /\ UNCHANGED << labels, style, texts, coalesce_animations, layers,
                  subst_elements, subst_strings, last_visible_layer, slide_num,
                  base_layers, visible_layers, i, merged,
                  inkscape_fails, pdftk_fails >>

RestoreMut ==
  /\ pc = "restore"
  /\ i' = i + 1
  /\ pc' = "loop"
  /\ UNCHANGED << labels, style, texts, coalesce_animations, layers,
                  subst_elements, subst_strings, last_visible_layer, slide_num,
                  page_count, base_layers, visible_layers, rendered, merged,
                  printed, page_files, inkscape_fails, pdftk_fails >>

\* lines 124-126: hide the visible layers again; the loop goes on
Restore ==
  /\ pc = "restore"
  /\ style' = [d \in 1..Len(style) |->
                 IF d \in Range(visible_layers) THEN StyleHidden ELSE style[d]]
  /\ i' = i + 1
  /\ pc' = "loop"
  /\ UNCHANGED << labels, texts, coalesce_animations, layers, subst_elements,
                  subst_strings, last_visible_layer, slide_num, page_count,
                  base_layers, visible_layers, rendered, merged,
                  printed, page_files, inkscape_fails, pdftk_fails >>

\* "slide-{:03d}.pdf".format(n), without the common "slide-" and "pdf": the
\* digits of n, padded with zeros to three, and the dot
PageName(n) ==
  LET d == Str(n) IN
  (IF Len(d) >= 3 THEN d ELSE [k \in 1..(3 - Len(d)) |-> "0"] \o d) \o << "." >>

\* the code of a character of a page name: '.' is 46, '0'..'9' are 48..57
CharCode(c) == IF c = "." THEN 46 ELSE 48 + (CHOOSE n \in 0..9 : Digit(n) = c)

RECURSIVE NameBefore(_, _)
\* the order in which the shell expands slide-*.pdf: character by character
NameBefore(a, b) ==
  IF a = <<>> THEN b # <<>>
  ELSE IF b = <<>> THEN FALSE
  ELSE IF Head(a) # Head(b) THEN CharCode(Head(a)) < CharCode(Head(b))
  ELSE NameBefore(Tail(a), Tail(b))

RECURSIVE SortedPages(_)
\* the output indices of a set of page files in the order of their names
SortedPages(S) ==
  IF S = {} THEN <<>>
  ELSE LET first == CHOOSE p \in S :
                      \A q \in S \ {p} : NameBefore(PageName(p), PageName(q))
       IN << first >> \o SortedPages(S \ {first})

\* What os.system returns for pdftk given the page files fs: without a page
\* file the pattern slide-*.pdf stays as it is and names no file.
PdftkStatus(fs) == IF fs = <<>> \/ pdftk_fails THEN 1 ELSE 0

\* The pattern slide-*.pdf of line 130 on a directory of page files.
ExpandGlob ==
  /\ pc = "glob"
  /\ merged' = SortedPages(page_files)
  /\ pc' = "globbed"
  /\ UNCHANGED << labels, style, texts, coalesce_animations, layers,
                  subst_elements, subst_strings, last_visible_layer, slide_num,
                  page_count, base_layers, visible_layers, i, rendered, page_files,
                  printed, inkscape_fails, pdftk_fails >>

\* lines 128-135: pdftk gets slide-*.pdf and its status decides the message;
\* the temporary files are removed
Merge ==
  /\ pc = "loop"
  /\ i >= Len(layers)
  /\ merged' = SortedPages(page_files)
  /\ printed' = Append(printed, IF PdftkStatus(SortedPages(page_files)) # 0
                                 THEN "Failed to combine pdfs"
                                 ELSE "Output written")
  /\ page_files' = {}
  /\ pc' = "done"
  /\ UNCHANGED << labels, style, texts, coalesce_animations, layers,
                  subst_elements, subst_strings, last_visible_layer, slide_num,
                  page_count, base_layers, visible_layers, i, rendered,
                  inkscape_fails, pdftk_fails >>

Next ==
  \/ CaptureTexts
  \/ HideAll
  \/ FilterLayers
  \/ FindLastVisible
  \/ BaseLayer
  \/ AdditiveLayer
  \/ NormalLayer
  \/ Show
  \/ Render
  \/ Restore
  \/ Merge

Spec == Init /\ [][Next]_vars

\* The runs in which inkscape and pdftk may fail.
SpecTools == InitTools /\ [][Next]_vars

\* Page numbers around the places where the page name gets a digit more.
PageSamples == { 0, 1, 9, 10, 11, 99, 100, 101, 998, 999, 1000, 1001 }

\* The expansion of slide-*.pdf as a function: a directory of one to three
\* page files.
InitGlob ==
  /\ page_files \in { S \in SUBSET PageSamples : Cardinality(S) \in 1..3 }
  /\ pc = "glob"
  /\ labels = <<>> /\ style = <<>> /\ layers = <<>>
  /\ texts \in TextDocs
  /\ coalesce_animations = FALSE
  /\ subst_elements = <<>> /\ subst_strings = <<>>
  /\ last_visible_layer = None
  /\ slide_num = 0 /\ page_count = 0
  /\ base_layers = <<>> /\ visible_layers = <<>>
  /\ i = 0
  /\ rendered = <<>> /\ merged = <<>> /\ printed = <<>>
  /\ inkscape_fails = {} /\ pdftk_fails = FALSE

NextGlob == ExpandGlob

SpecGlob == InitGlob /\ [][NextGlob]_vars

\* ---------------------------------------------------- reading the state
\* The run has left the loop over the layers (or has ended).
Finished == pc = "done"

WellFormed == \A d \in 1..Len(labels) : ~LabelRaises(labels[d])

\* The class of a document layer, read off the first character of its label.
Sigil(d) == labels[d].label[1]
IsHidden(d) == Sigil(d) = "."
IsBase(d) == Sigil(d) = "_"
IsAdditive(d) == Sigil(d) = "+"
IsNormal(d) == Sigil(d) \notin { ".", "_", "+" }
IsSlideLayer(d) == IsNormal(d) \/ IsAdditive(d)

Docs == 1..Len(labels)
Requests == 1..Len(rendered)

VisibleSets == [k \in Requests |-> rendered[k].visible_layer_set]

\* The last Normal or Additive layer of the document (0 without one).
LastSlideLayer ==
  IF \E d \in Docs : IsSlideLayer(d)
  THEN CHOOSE d \in Docs : IsSlideLayer(d) /\ \A e \in Docs : IsSlideLayer(e) => e <= d
  ELSE 0

\* ------------------------------------------------------------------ C1
\* C1: with flattening enabled only the final frame of each build-up is
\* rendered: no two emitted requests share the same slide_number.
C1_OneRequestPerSlide ==
  coalesce_animations =>
    \A j, k \in Requests :
      j # k => rendered[j].slide_number # rendered[k].slide_number

C3_SlideNumberOneBased ==
  \A k \in Requests :
    /\ rendered[k].slide_number >= 1
    /\ k > 1 => rendered[k - 1].slide_number <= rendered[k].slide_number

\* ------------------------------------------------------------------ C4
\* C4 as stated: the final processed layer is always emitted, so a finished
\* run over a list with a non-hidden layer has emitted a request, the last
\* one for the final layer of the working list.
C4_FinalLayerEmitted ==
  (Finished /\ \E d \in Docs : ~IsHidden(d)) =>
    /\ rendered # <<>>
    /\ rendered[Len(rendered)].layer = layers[Len(layers)]

\* C4 amended: the last Normal or Additive layer is always emitted (never
\* deferred, and the lookahead does not fail on it), so every run over a list
\* with at least one Normal or Additive layer ends having emitted at least
\* one request, the last one for that layer, in both flattening modes.
C4_LastSlideLayerEmitted ==
  (WellFormed /\ pc \in {"done", "aborted"} /\ \E d \in Docs : IsSlideLayer(d)) =>
    /\ pc = "done"
    /\ rendered # <<>>
    /\ rendered[Len(rendered)].layer = LastSlideLayer

\* A finished flattening run that deferred a layer, emitted the last slide
\* layer and ended on a Base layer.
C4_Witness ==
  /\ Finished
  /\ coalesce_animations
  /\ layers # <<>>
  /\ IsBase(layers[Len(layers)])
  /\ rendered # <<>>
  /\ rendered[Len(rendered)].layer = LastSlideLayer
  /\ Cardinality({ d \in Docs : IsSlideLayer(d) }) > Len(rendered)

\* ------------------------------------------------------------------ C5
\* C5: a layer list with only Base and Hidden layers (or none at all) gives
\* no request: inkscape is never reached and page_count stays 0.
C5_NoSlideLayersNoRequests ==
  (WellFormed /\ \A d \in Docs : IsHidden(d) \/ IsBase(d)) =>
    /\ rendered = <<>>
    /\ page_count = 0
    /\ pc \notin {"show", "render", "restore"}

\* A finished run over a list holding a Base and a Hidden layer and no other.
C5_Witness ==
  /\ Finished
  /\ \A d \in Docs : IsHidden(d) \/ IsBase(d)
  /\ \E d \in Docs : IsHidden(d)
  /\ \E d \in Docs : IsBase(d)
  /\ rendered = <<>>

\* ------------------------------------------------------------------ C6
\* C6: N Normal layers and nothing else give exactly N requests, the k-th
\* with slide_number k, output_index k-1 and visible set {k-th layer}, with
\* flattening off and on.
C6_NormalLayersOnly ==
  (Finished /\ \A d \in Docs : IsNormal(d)) =>
    /\ Len(rendered) = Len(labels)
    /\ \A k \in Requests :
         /\ rendered[k].layer = k
         /\ rendered[k].slide_number = k
         /\ rendered[k].output_index = k - 1
         /\ rendered[k].visible_layer_set = {k}

\* A finished flattening run over three or more Normal layers.
C6_Witness ==
  /\ Finished
  /\ coalesce_animations
  /\ Len(labels) >= 3
  /\ \A d \in Docs : IsNormal(d)
  /\ Len(rendered) = Len(labels)

\* ------------------------------------------------------------------ C7
\* C7: the step that processes an Additive layer leaves slide_num alone and
\* makes the visible set the previous set plus this layer, which was not in
\* it before.
C7_AdditiveExtends ==
  [][ (pc = "loop" /\ i < Len(layers) /\ IsAdditive(CurLayer)) =>
        /\ slide_num' = slide_num
        /\ CurLayer \notin Range(visible_layers)
        /\ Range(visible_layers') = Range(visible_layers) \cup {CurLayer}
        /\ Len(visible_layers') = Len(visible_layers) + 1 ]_vars

\* An Additive layer has just been added to a Base and a Normal layer.
C7_Witness ==
  /\ pc = "show"
  /\ IsAdditive(CurLayer)
  /\ \E b, n \in Range(visible_layers) : IsBase(b) /\ IsNormal(n)
  /\ slide_num = 1

\* ------------------------------------------------------------------ C8
\* C8: for [Normal A, Additive B, Normal C] flattening gives exactly the two
\* requests {A,B}, {C}; without flattening the three requests {A}, {A,B}, {C}.
C8_BuildUpExample ==
  (Finished /\ Len(labels) = 3 /\ IsNormal(1) /\ IsAdditive(2) /\ IsNormal(3)) =>
    VisibleSets = IF coalesce_animations
                  THEN << {1, 2}, {3} >>
                  ELSE << {1}, {1, 2}, {3} >>

\* The flattening run over [Normal, Additive, Normal] has finished.
C8_Witness ==
  /\ Finished
  /\ coalesce_animations
  /\ Len(labels) = 3
  /\ IsNormal(1) /\ IsAdditive(2) /\ IsNormal(3)
  /\ Len(rendered) = 2

\* ------------------------------------------------------------------ C9
\* C9: the output_index values of the requests are 0, 1, ..., m-1 in the
\* order of emission, whatever was deferred.
C9_OutputIndexContiguous ==
  /\ page_count = Len(rendered)
  /\ \A k \in Requests : rendered[k].output_index = k - 1

\* A finished flattening run with two or more requests and a deferred layer.
C9_Witness ==
  /\ Finished
  /\ coalesce_animations
  /\ Len(rendered) >= 2
  /\ Cardinality({ d \in Docs : IsSlideLayer(d) }) > Len(rendered)

\* ----------------------------------------------------------------- C10
\* C10: at every call of the rasterizer the layers of the document that are
\* shown are exactly the layers of the request's visible_layer_set.
C10_ShownIsVisibleSet ==
  \A k \in Requests : rendered[k].shown = rendered[k].visible_layer_set

\* The second call of the rasterizer, on a document with a Hidden and a Base
\* layer, shows other layers than the first.
C10_Witness ==
  /\ Len(rendered) >= 2
  /\ \E d \in Docs : IsHidden(d)
  /\ \E d \in Docs : IsBase(d)
  /\ rendered[2].shown # rendered[1].shown
  /\ rendered[2].shown # {}

\* ----------------------------------------------------------------- C11
\* C11: after the last request, and between the restore step of one request
\* and the show step of the next, every layer of the document is invisible.
C11_AllHiddenBetweenRequests ==
  pc \in {"loop", "show", "done"} => ShownLayers(style) = {}

\* A finished run with two requests over a document with a Hidden layer.
C11_Witness ==
  /\ Finished
  /\ Len(rendered) >= 2
  /\ \E d \in Docs : IsHidden(d)
  /\ ShownLayers(style) = {}

\* ----------------------------------------------------------------- C12
Digits == { Digit(n) : n \in 0..9 }

RECURSIVE DecimalValue(_)
\* the number a sequence of decimal digits denotes
DecimalValue(ds) ==
  IF ds = <<>> THEN 0
  ELSE 10 * DecimalValue(SubSeq(ds, 1, Len(ds) - 1))
         + (CHOOSE n \in 0..9 : Digit(n) = ds[Len(ds)])

IsDecimalOf(ds, n) ==
  /\ ds # <<>>
  /\ \A k \in 1..Len(ds) : ds[k] \in Digits
  /\ Len(ds) > 1 => ds[1] # "0"
  /\ DecimalValue(ds) = n

RECURSIVE IsFilledIn(_, _, _)
\* w is the template t with every marker replaced by the decimal form of n
IsFilledIn(w, t, n) ==
  IF t = <<>> THEN w = <<>>
  ELSE IF Head(t) = Marker
       THEN \E m \in 1..Len(w) :
              /\ IsDecimalOf(SubSeq(w, 1, m), n)
              /\ IsFilledIn(SubSeq(w, m + 1, Len(w)), Tail(t), n)
       ELSE /\ w # <<>>
            /\ Head(w) = Head(t)
            /\ IsFilledIn(Tail(w), Tail(t), n)

\* The texts of the source document that hold the marker, by tspan.
SourceTemplates ==
  LET doc == CHOOSE ts \in TextDocs : TRUE
  IN [e \in { k \in 1..Len(doc) : HasMarker(doc[k]) } |-> doc[e].text]

\* C12: the text written for every request and substitution target is the
\* captured template with ${slide} replaced by the decimal slide number of
\* that request, and the captured templates stay the texts of the source.
C12_SubstitutionFromTemplate ==
  pc # "load" =>
    /\ Range(subst_elements) = DOMAIN SourceTemplates
    /\ \A s \in 1..Len(subst_elements) :
         /\ subst_strings[s] = SourceTemplates[subst_elements[s]]
         /\ \A k \in Requests :
              /\ ~rendered[k].texts[subst_elements[s]].isnone
              /\ IsFilledIn(rendered[k].texts[subst_elements[s]].text,
                            SourceTemplates[subst_elements[s]],
                            rendered[k].slide_number)

\* Two requests with different slide numbers have been written.
C12_Witness ==
  /\ Len(rendered) >= 2
  /\ rendered[1].slide_number # rendered[2].slide_number
  /\ Len(subst_elements) >= 1
  /\ rendered[1].texts[subst_elements[1]] # rendered[2].texts[subst_elements[1]]

\* ----------------------------------------------------------------- C13
RECURSIVE ComposeFrom(_, _, _, _)
\* The main pass (lines 80-126) as a function of the first characters sig of
\* the labels of the working list and of the flattening flag: the requests
\* emitted from layer k on, st holding base_layers, visible_layers, slide_num
\* and the requests emitted so far.  Layers are numbered by their position in
\* the list.
ComposeFrom(sig, flat, k, st) ==
  IF k > Len(sig) THEN st.out
  ELSE IF sig[k] = "_"
  THEN ComposeFrom(sig, flat, k + 1, [st EXCEPT !.base = Append(@, k)])
  ELSE LET vis == IF sig[k] = "+" THEN Append(st.vis, k) ELSE Append(st.base, k)
           slide == IF sig[k] = "+" THEN st.slide ELSE st.slide + 1
           islast == \A j \in (k + 1)..Len(sig) : sig[j] = "_"
           st2 == [st EXCEPT !.vis = vis, !.slide = slide]
       IN IF flat /\ ~islast /\ k + 1 > Len(sig) THEN st.out
          ELSE IF flat /\ ~islast /\ sig[k + 1] \in {"+", "."}
          THEN ComposeFrom(sig, flat, k + 1, st2)
          ELSE ComposeFrom(sig, flat, k + 1,
                 [st2 EXCEPT !.out = Append(@,
                    [ slide_number |-> slide,
                      output_index |-> Len(st.out),
                      visible_layer_set |-> Range(vis) ])])

Compose(sig, flat) ==
  ComposeFrom(sig, flat, 1, [base |-> <<>>, vis |-> <<>>, slide |-> 0, out |-> <<>>])

\* The position of a document layer among the layers that are not Hidden.
Rank(d) == Cardinality({ e \in Docs : e <= d /\ ~IsHidden(e) })

\* The first characters of the labels of the layers that are not Hidden.
StrippedSigils ==
  [r \in 1..Cardinality({ d \in Docs : ~IsHidden(d) }) |->
     Sigil(CHOOSE d \in Docs : ~IsHidden(d) /\ Rank(d) = r)]

\* The requests emitted, with layers named by their rank.
EmittedByRank ==
  [k \in Requests |->
     [ slide_number |-> rendered[k].slide_number,
       output_index |-> rendered[k].output_index,
       visible_layer_set |-> { Rank(d) : d \in rendered[k].visible_layer_set } ]]

\* C13: no Hidden layer is in any visible_layer_set, and the requests emitted
\* (slide_number, output_index, visible_layer_set) are those of the document
\* with its Hidden layers taken out, so Hidden layers added or removed
\* anywhere change nothing, in both flattening modes.
C13_HiddenLayersInert ==
  WellFormed =>
    /\ \A k \in Requests : \A d \in rendered[k].visible_layer_set : ~IsHidden(d)
    /\ Finished => EmittedByRank = Compose(StrippedSigils, coalesce_animations)

\* A finished flattening run with a Hidden layer between a Normal layer and
\* the Additive layer that extends it.
C13_Witness ==
  /\ Finished
  /\ coalesce_animations
  /\ \E d \in Docs : d > 1 /\ d < Len(labels)
       /\ IsHidden(d) /\ IsNormal(d - 1) /\ IsAdditive(d + 1)
       /\ \E k \in Requests : {d - 1, d + 1} \subseteq rendered[k].visible_layer_set

\* ----------------------------------------------------------------- C14
\* C14: when a layer group has no label or an empty one, the script ends at
\* the filter of line 67: it never gets past it, no request is emitted and
\* the merge tool is not called.
C14_UnlabelledLayerAborts ==
  ~WellFormed =>
    /\ pc \in {"load", "hide", "filter", "aborted"}
    /\ rendered = <<>>
    /\ merged = <<>>
    /\ page_count = 0

\* The script has ended on a document whose first layer is Normal and which
\* has a later layer with an empty label and one without a label.
C14_Witness ==
  /\ pc = "aborted"
  /\ Len(labels) >= 3
  /\ ~LabelRaises(labels[1])
  /\ IsNormal(1)
  /\ \E d \in Docs : labels[d].haslabel /\ Len(labels[d].label) = 0
  /\ \E d \in Docs : ~labels[d].haslabel

\* ----------------------------------------------------------------- C17
\* C17: a request emitted for a Normal layer n shows exactly the Base layers
\* before n and n itself, and processing a Normal layer raises slide_num by
\* exactly 1.
C17_NormalLayerResets ==
  /\ [](WellFormed =>
          \A k \in Requests :
            IsNormal(rendered[k].layer) =>
              rendered[k].visible_layer_set =
                { b \in Docs : b < rendered[k].layer /\ IsBase(b) }
                  \cup { rendered[k].layer })
  /\ [][ (pc = "loop" /\ i < Len(layers) /\ IsNormal(CurLayer)) =>
           slide_num' = slide_num + 1 ]_vars

\* A request for a Normal layer that follows a Base layer, an earlier Normal
\* layer and an Additive layer.
C17_Witness ==
  /\ WellFormed
  /\ \E k \in Requests : \E b, n, a \in Docs :
       /\ IsNormal(rendered[k].layer)
       /\ IsBase(b) /\ IsNormal(n) /\ IsAdditive(a)
       /\ b < rendered[k].layer /\ n < a /\ a < rendered[k].layer
       /\ rendered[k].slide_number = 2

\* ----------------------------------------------------------------- C18
\* C18: with flattening on, whenever the lookahead of line 101 reads
\* layers[i+1] that layer exists, and so no run over labelled layers ends in
\* an error.
C18_LookaheadInRange ==
  /\ (pc = "loop" /\ i < Len(layers) /\ coalesce_animations
        /\ ~IsBase(CurLayer) /\ CurLayer # last_visible_layer)
       => i + 2 <= Len(layers)
  /\ WellFormed => pc # "aborted"

\* The lookahead is about to read the label of a trailing Base layer.
C18_Witness ==
  /\ pc = "loop"
  /\ i < Len(layers)
  /\ coalesce_animations
  /\ ~IsBase(CurLayer)
  /\ CurLayer # last_visible_layer
  /\ i + 2 <= Len(layers)
  /\ IsBase(layers[i + 2])
  /\ IsBase(layers[Len(layers)])

\* ----------------------------------------------------------------- C19
\* The visible layers after the layer d has been processed: the Base layers
\* before the last Normal layer up to d, that layer, and the Additive layers
\* since.
VisibleAfter(d) ==
  LET ns == { n \in Docs : n <= d /\ IsNormal(n) }
      n0 == IF ns = {} THEN 0 ELSE CHOOSE n \in ns : \A m \in ns : m <= n
  IN { b \in Docs : b < n0 /\ IsBase(b) }
       \cup { n \in Docs : n = n0 }
       \cup { a \in Docs : n0 < a /\ a <= d /\ IsAdditive(a) }

\* C19: when the run has finished, every Normal and every Additive layer is
\* in the visible_layer_set of a request emitted for it or a later layer that
\* holds everything visible after it: flattening drops no layer.
C19_NoLayerDropped ==
  Finished =>
    \A d \in Docs :
      IsSlideLayer(d) =>
        \E k \in Requests :
          /\ rendered[k].layer >= d
          /\ d \in rendered[k].visible_layer_set
          /\ VisibleAfter(d) \subseteq rendered[k].visible_layer_set

\* A finished flattening run that deferred two layers in a row.
C19_Witness ==
  /\ Finished
  /\ coalesce_animations
  /\ \E d \in Docs : d + 2 <= Len(labels)
       /\ IsNormal(d) /\ IsAdditive(d + 1) /\ IsAdditive(d + 2)
       /\ (\A j \in Requests : rendered[j].layer \notin {d, d + 1})
       /\ \E k \in Requests : {d, d + 1, d + 2} \subseteq rendered[k].visible_layer_set

\* ----------------------------------------------------------------- C20
Pairs(rs) ==
  [k \in 1..Len(rs) |-> << rs[k].slide_number, rs[k].visible_layer_set >>]

RECURSIVE IsSubseq(_, _)
IsSubseq(a, b) ==
  IF a = <<>> THEN TRUE
  ELSE IF b = <<>> THEN FALSE
  ELSE IF Head(a) = Head(b) THEN IsSubseq(Tail(a), Tail(b))
  ELSE IsSubseq(a, Tail(b))

SameEnd(a, b) ==
  IF a = <<>> \/ b = <<>> THEN a = b ELSE a[Len(a)] = b[Len(b)]

\* C20: the (slide_number, visible_layer_set) pairs emitted with flattening
\* are a subsequence of those emitted without it, both end with the same
\* pair, and without flattening there is one request per Normal or Additive
\* layer.  The finished run gives one side, the main pass as a function of
\* the same list the other.
C20_FlatteningIsSubsequence ==
  Finished =>
    LET actual == Pairs(EmittedByRank)
        other == Pairs(Compose(StrippedSigils, ~coalesce_animations))
    IN IF coalesce_animations
       THEN /\ IsSubseq(actual, other)
            /\ SameEnd(actual, other)
            /\ Len(other) = Cardinality({ d \in Docs : IsSlideLayer(d) })
       ELSE /\ IsSubseq(other, actual)
            /\ SameEnd(other, actual)
            /\ Len(actual) = Cardinality({ d \in Docs : IsSlideLayer(d) })

\* A finished flattening run that emitted fewer requests than there are
\* Normal and Additive layers, and more than one.
C20_Witness ==
  /\ Finished
  /\ coalesce_animations
  /\ Len(rendered) >= 2
  /\ Len(rendered) < Len(Compose(StrippedSigils, FALSE))

\* ----------------------------------------------------------------- C15
FailureReported == \E m \in 1..Len(printed) : printed[m] = "Failed to combine pdfs"

\* C15: the exit status of every external call is checked: when inkscape
\* returned non-zero for a page, or pdftk returned non-zero, the finished run
\* has reported a failure.
C15_ToolFailureReported ==
  Finished =>
    /\ (\E k \in Requests : rendered[k].status # 0) => FailureReported
    /\ PdftkStatus(merged) # 0 => FailureReported

\* ----------------------------------------------------------------- C16
\* C16: the merge tool receives all the page files, in ascending order of
\* output_index, whatever their number.
C16_MergeInAscendingOrder ==
  /\ pc = "globbed" => Range(merged) = page_files
  /\ pc \in {"done", "globbed"} =>
       \A j, k \in 1..Len(merged) : j < k => merged[j] < merged[k]

====
